---- MODULE Spec2Model ----
(***************************************************************************)
(* Model of camera-describe: the serverless analyze handler                *)
(* (api/analyze.js) and the camera UI component (src/App.jsx).             *)
(*                                                                         *)
(* Strings that the code transforms (upper-casing, slicing, joining) are   *)
(* sequences of one-character strings; messages the code only passes on    *)
(* are TLA+ strings.                                                       *)
(***************************************************************************)
EXTENDS Integers, Sequences, FiniteSets, TLC

\* ------------------------------------------------------------------ bounds
MaxRequests == 2      \* requests served one after another by the handler
LongLen == 101        \* length of the long description among the inputs
ExpandLen == 51       \* number of expanding characters in one description
MaxPending == 2       \* getUserMedia calls that may be pending at once
MaxStarts == 2        \* streams acquired or awaited in one UI session

\* --------------------------------------------------------- string helpers
Rep(c, n) == [i \in 1..n |-> c]

\* slice forgotten
TakeAll(s, n) == s

Take(s, n) == SubSeq(s, 1, IF Len(s) < n THEN Len(s) ELSE n)

\* String.prototype.toUpperCase on one character: "sz" stands for the
\* sharp s, whose upper-casing is the two characters SS.
UpperChar(c) ==
  CASE c = "a" -> <<"A">>
    [] c = "b" -> <<"B">>
    [] c = "sz" -> <<"S", "S">>
    [] OTHER -> <<c>>

RECURSIVE toUpperCase(_)
toUpperCase(s) ==
  IF s = <<>> THEN <<>> ELSE UpperChar(Head(s)) \o toUpperCase(Tail(s))

\* Array.prototype.join("\n")
RECURSIVE JoinNewline(_)
JoinNewline(ss) ==
  IF ss = <<>> THEN <<>>
  ELSE IF Len(ss) = 1 THEN ss[1]
  ELSE ss[1] \o <<"\n">> \o JoinNewline(Tail(ss))

\* Array.prototype.includes
Includes(arr, x) == \E i \in 1..Len(arr) : arr[i] = x

\* ---------------------------------------------------- handler: constants
\* the mode test of the generative branch
GenerativeModes == <<"gemini", "describe", "mood", "haiku">>

\* the prompts table; the celebrity prompt is abbreviated to its first words
prompts ==
  [gemini |-> "Describe this image in 10 words or less. Be direct and poetic. Reply in uppercase.",
   celebrity |-> "If you recognize this person, describe them WITHOUT naming them.",
   mood |-> "Describe the mood or atmosphere of this image in 5 words or less. Reply in uppercase.",
   haiku |-> "Write a haiku about this image. Reply in uppercase."]

\* prompts[mode]: a key that is not in the table reads as undefined
PromptOf(m) == IF m \in DOMAIN prompts THEN prompts[m] ELSE "undefined"

features ==
  [labels |-> "LABEL_DETECTION", text |-> "TEXT_DETECTION", faces |-> "FACE_DETECTION"]

\* features[mode]
FeaturesOf(m) == IF m \in DOMAIN features THEN features[m] ELSE "undefined"

\* a list that tries the first model again at the end
modelsToTryAgain ==
  <<"gemini-2.0-flash", "gemini-1.5-flash-latest", "gemini-pro-vision", "gemini-2.0-flash">>

modelsToTry == <<"gemini-2.0-flash", "gemini-1.5-flash-latest", "gemini-pro-vision">>

LabelLimit == 5
TextLimit == 100

FACES_DETECTED == <<"F","A","C","E","S"," ","D","E","T","E","C","T","E","D">>
NO_DATA_FOUND == <<"N","O"," ","D","A","T","A"," ","F","O","U","N","D">>

\* the modes the UI cycles through
modes == <<"gemini", "celebrity", "mood", "haiku", "labels", "text", "faces">>

UIModes == {modes[i] : i \in 1..Len(modes)}

\* ------------------------------------------------------- handler: inputs
Methods == {"OPTIONS", "POST", "GET"}
AllModes == UIModes \cup {"describe", "undefined"}
Images == {"img1", "img2"}

Requests ==
  [method : Methods, hasBody : BOOLEAN, hasKey : BOOLEAN,
   mode : AllModes, image : Images]

\* texts a generative model may produce
Texts == { <<"A", " ", "B">>, <<"a", " ", "b">>, <<"sz", "a">> }
ErrMsgs == {"quota exceeded", "model not found"}

\* outcome of one attempt of the fallback loop: generateContent rejects,
\* or it resolves and response.text() throws, or the text is read
Outcomes ==
  [kind : {"reject", "textThrows"}, text : {<<>>}, msg : ErrMsgs]
  \cup [kind : {"ok"}, text : Texts, msg : {""}]

DescShort == <<"a", "b">>
DescMixed == <<"A", "sz", " ", "b">>
DescLong == Rep("a", LongLen)
DescExpand == Rep("sz", ExpandLen)
DescLongMixed == <<"b">> \o Rep("A", LongLen)

LabelLists ==
  { <<>>,
    << <<"a">> >>,
    << <<"a">>, <<"b">>, <<"A">>, <<"sz">>, <<"B", "a">> >>,
    << <<"b">>, <<"a">>, <<"A">>, <<"sz">>, <<"B", "a">>, <<"a", "a">> >>,
    << <<"a">>, <<"b">>, <<"a">>, <<"b">>, <<"a">>, <<"b">>, <<"a", "b">> >> }

TextLists ==
  { <<>>, <<DescShort>>, <<DescMixed, DescShort>>, <<DescLong>>,
    <<DescExpand, DescShort>>, <<DescLongMixed>> }

NoAnnotations ==
  [hasLabels |-> FALSE, labels |-> <<>>, hasText |-> FALSE, texts |-> <<>>,
   hasFaces |-> FALSE]

\* data.responses[0] as the annotation provider may return it
ResDatas ==
  {NoAnnotations}
  \cup {[NoAnnotations EXCEPT !.hasLabels = TRUE, !.labels = l] : l \in LabelLists}
  \cup {[NoAnnotations EXCEPT !.hasText = TRUE, !.texts = t] : t \in TextLists}
  \cup {[NoAnnotations EXCEPT !.hasFaces = TRUE]}

\* what the fetch of the annotation provider settles to: a rejection (or a
\* body that is not JSON), a body without a first response, or a response
VisionReplies ==
  [kind : {"reject"}, msg : {"fetch failed", ""}, resData : {NoAnnotations}]
  \cup [kind : {"noResponse"}, msg : {""}, resData : {NoAnnotations}]
  \cup [kind : {"response"}, msg : {""}, resData : ResDatas]

NoRequest ==
  [method |-> "OPTIONS", hasBody |-> FALSE, hasKey |-> FALSE,
   mode |-> "undefined", image |-> "img1"]
NoReply == [kind |-> "noResponse", msg |-> "", resData |-> NoAnnotations]

\* --------------------------------------------------------------- state
VARIABLES
  hpc,          \* handler position: idle, loop, vision, done, crashed
  req,          \* the request being served
  served,       \* number of requests received so far
  calls,        \* models whose generateContent was called, in order
  outcomes,     \* how each of these calls settled, in order
  lastError,    \* lastError?.message
  success,
  sentPrompt,   \* prompt handed to the generative provider
  sentFeatures, \* features handed to the annotation provider
  visionCalls,  \* fetches of the annotation provider for this request
  visionReply,  \* what that fetch settled to
  responses,    \* responses written to res for this request
  routed,       \* per mode, the <<image, provider>> pairs dispatched so far
  reads,        \* what the handler has read for this request: body, key
  version,      \* which copy of the App component runs
  isStreaming, capturedImage, result, loading, mode,
  facingMode, monochrome, grain,
  streamRef,    \* id of the stream held, 0 for null
  trackRef,     \* id of the stream whose video track is held, 0 for null
  tracks,       \* per stream id: "live" or "stopped"
  pendingGUM,   \* getUserMedia calls not settled yet
  inflight,     \* the /api/analyze requests that have not settled
  lastOutcome   \* how the latest settled /api/analyze request settled

hvars == <<hpc, req, served, calls, outcomes, lastError, success, sentPrompt,
           sentFeatures, visionCalls, visionReply, responses, routed, reads>>
uvars == <<version, isStreaming, capturedImage, result, loading, mode,
           facingMode, monochrome, grain, streamRef, trackRef, tracks, pendingGUM, inflight, lastOutcome>>
vars == <<hpc, req, served, calls, outcomes, lastError, success, sentPrompt,
          sentFeatures, visionCalls, visionReply, responses, routed, reads,
          version, isStreaming, capturedImage, result, loading, mode,
          facingMode, monochrome, grain, streamRef, trackRef, tracks, pendingGUM, inflight, lastOutcome>>

\* ---------------------------------------------------- handler: responses
\* res.status(200).end()
EndResponse == [status |-> 200, kind |-> "empty", result |-> <<>>, error |-> ""]
\* res.status(200).json({ result })
ResultResponse(t) == [status |-> 200, kind |-> "result", result |-> t, error |-> ""]
\* res.status(s).json({ error })
ErrorResponse(s, m) == [status |-> s, kind |-> "error", result |-> <<>>, error |-> m]

\* catch (error): error.message || 'Server Error'
CatchResponse(m) == ErrorResponse(500, IF m = "" THEN "Server Error" ELSE m)

\* the cause left out of the message
AllFailedMessageNoCause(m) == "All models failed."

\* throw new Error(`All models failed. Last error: ${lastError?.message}`)
AllFailedMessage(m) == "All models failed. Last error: " \o m

\* a dispatch that also looks at the image
StageByImage(r) ==
  IF r.method = "OPTIONS" THEN "options"
  ELSE IF ~r.hasBody THEN "throw"
  ELSE IF ~r.hasKey THEN "nokey"
  ELSE IF Includes(GenerativeModes, r.mode) /\ r.image = "img1" THEN "generative"
  ELSE "annotation"

\* where a request goes after the CORS headers
Stage(r) ==
  IF r.method = "OPTIONS" THEN "options"
  ELSE IF ~r.hasBody THEN "throw"
  ELSE IF ~r.hasKey THEN "nokey"
  ELSE IF Includes(GenerativeModes, r.mode) THEN "generative"
  ELSE "annotation"

\* the faces branch without its test of faceAnnotations
FormatAnnotationsNoFaceTest(m, d) ==
  IF m = "labels" /\ d.hasLabels
    THEN JoinNewline([i \in 1..Len(Take(d.labels, LabelLimit)) |-> toUpperCase(d.labels[i])])
  ELSE IF m = "text" /\ d.hasText /\ Len(d.texts) > 0
    THEN Take(toUpperCase(d.texts[1]), TextLimit)
  ELSE IF m = "faces"
    THEN FACES_DETECTED
  ELSE NO_DATA_FOUND

\* the labels branch without its toUpperCase
FormatAnnotationsNoUpper(m, d) ==
  IF m = "labels" /\ d.hasLabels
    THEN JoinNewline([i \in 1..Len(Take(d.labels, LabelLimit)) |-> d.labels[i]])
  ELSE IF m = "text" /\ d.hasText /\ Len(d.texts) > 0
    THEN Take(toUpperCase(d.texts[1]), TextLimit)
  ELSE IF m = "faces" /\ d.hasFaces
    THEN FACES_DETECTED
  ELSE NO_DATA_FOUND

\* the body and the credential read ahead of the OPTIONS test
ReadsEager(st) == {"body", "key"}

\* what the handler reads on its way to a stage: nothing before the
\* OPTIONS return, req.body (line 23) and then process.env (line 24) after
ReadsAt(st) ==
  IF st = "options" THEN {}
  ELSE IF st = "throw" THEN {"body"}
  ELSE {"body", "key"}

\* the annotation branch's formatting of data.responses[0]
FormatAnnotations(m, d) ==
  IF m = "labels" /\ d.hasLabels
    THEN JoinNewline([i \in 1..Len(Take(d.labels, LabelLimit)) |-> toUpperCase(d.labels[i])])
  ELSE IF m = "text" /\ d.hasText /\ Len(d.texts) > 0
    THEN Take(toUpperCase(d.texts[1]), TextLimit)
  ELSE IF m = "faces" /\ d.hasFaces
    THEN FACES_DETECTED
  ELSE NO_DATA_FOUND

\* useState(null) for capturedImage
NoImage == [mime |-> "null", data |-> <<>>]
NoOutcome == [kind |-> "none", result |-> "null", error |-> ""]

\* the copies of the App component in the repository
Versions == {"App.jsx", "part_000", "part_001", "part_002"}

InitHandler ==
  /\ hpc = "idle"
  /\ req = NoRequest
  /\ served = 0
  /\ calls = <<>>
  /\ outcomes = <<>>
  /\ lastError = "undefined"
  /\ success = FALSE
  /\ sentPrompt = "none"
  /\ sentFeatures = "none"
  /\ visionCalls = 0
  /\ visionReply = NoReply
  /\ responses = <<>>
  /\ routed = [m \in AllModes |-> {}]
  /\ reads = {}

\* the useState and useRef initial values
InitApp ==
  /\ isStreaming = FALSE
  /\ capturedImage = NoImage
  /\ result = "null"
  /\ loading = FALSE
  /\ mode = "gemini"
  /\ facingMode = "environment"
  /\ monochrome = FALSE
  /\ grain = 0
  /\ streamRef = 0
  /\ trackRef = 0
  /\ tracks = <<>>
  /\ pendingGUM = 0
  /\ inflight = {}
  /\ lastOutcome = NoOutcome

Init == InitHandler /\ InitApp /\ version = "App.jsx"

InitUI == InitHandler /\ InitApp /\ version \in Versions

\* handler, from its entry to its first await (or to its return)
Receive ==
  /\ hpc \in {"idle", "done", "crashed"}
  /\ served < MaxRequests
  /\ \E r \in Requests :
       /\ req' = r
       /\ served' = served + 1
       /\ outcomes' = <<>>
       /\ lastError' = "undefined"
       /\ success' = FALSE
       /\ visionReply' = NoReply
       /\ reads' = ReadsAt(Stage(r))
       /\ CASE Stage(r) = "options" ->
                 /\ responses' = <<EndResponse>>
                 /\ hpc' = "done"
                 /\ calls' = <<>> /\ visionCalls' = 0
                 /\ sentPrompt' = "none" /\ sentFeatures' = "none"
                 /\ routed' = routed
            [] Stage(r) = "throw" ->
                 \* destructuring req.body throws before the try block
                 /\ responses' = <<>>
                 /\ hpc' = "crashed"
                 /\ calls' = <<>> /\ visionCalls' = 0
                 /\ sentPrompt' = "none" /\ sentFeatures' = "none"
                 /\ routed' = routed
            [] Stage(r) = "nokey" ->
                 /\ responses' = <<ErrorResponse(500, "API Key not configured")>>
                 /\ hpc' = "done"
                 /\ calls' = <<>> /\ visionCalls' = 0
                 /\ sentPrompt' = "none" /\ sentFeatures' = "none"
                 /\ routed' = routed
            [] Stage(r) = "generative" ->
                 /\ responses' = <<>>
                 /\ hpc' = "loop"
                 /\ calls' = <<modelsToTry[1]>> /\ visionCalls' = 0
                 /\ sentPrompt' = PromptOf(r.mode) /\ sentFeatures' = "none"
                 /\ routed' = [routed EXCEPT ![r.mode] = @ \cup {<<r.image, "generative">>}]
            [] Stage(r) = "annotation" ->
                 /\ responses' = <<>>
                 /\ hpc' = "vision"
                 /\ calls' = <<>> /\ visionCalls' = 1
                 /\ sentPrompt' = "none" /\ sentFeatures' = FeaturesOf(r.mode)
                 /\ routed' = [routed EXCEPT ![r.mode] = @ \cup {<<r.image, "annotation">>}]
  /\ UNCHANGED uvars

\* the loop without its break: after a success the next model is called too
ModelSucceedsNoBreak ==
  /\ hpc = "loop"
  /\ Len(outcomes) < Len(calls)
  /\ \E o \in Outcomes :
       /\ o.kind = "ok"
       /\ outcomes' = Append(outcomes, o)
       /\ success' = TRUE
       /\ IF Len(calls) < Len(modelsToTry)
            THEN /\ calls' = Append(calls, modelsToTry[Len(calls) + 1])
                 /\ UNCHANGED <<hpc, responses>>
            ELSE /\ calls' = calls
                 /\ responses' = Append(responses, ResultResponse(toUpperCase(o.text)))
                 /\ hpc' = "done"
  /\ UNCHANGED <<req, served, lastError, sentPrompt, sentFeatures,
                 visionCalls, visionReply, routed, reads>>
  /\ UNCHANGED uvars

\* the pending generateContent settles and text() is read: break and answer
ModelSucceeds ==
  /\ hpc = "loop"
  /\ Len(outcomes) < Len(calls)
  /\ \E o \in Outcomes :
       /\ o.kind = "ok"
       /\ outcomes' = Append(outcomes, o)
       /\ success' = TRUE
       /\ responses' = Append(responses, ResultResponse(toUpperCase(o.text)))
       /\ hpc' = "done"
  /\ calls' = calls                             \* break
  /\ UNCHANGED <<req, served, lastError, sentPrompt, sentFeatures,
                 visionCalls, visionReply, routed, reads>>
  /\ UNCHANGED uvars

\* the pending attempt throws: remember the error, call the next model, or
\* throw 'All models failed' after the last one
ModelFails ==
  /\ hpc = "loop"
  /\ Len(outcomes) < Len(calls)
  /\ \E o \in Outcomes :
       /\ o.kind # "ok"
       /\ outcomes' = Append(outcomes, o)
       /\ lastError' = o.msg
       /\ IF Len(calls) < Len(modelsToTry)
            THEN /\ calls' = Append(calls, modelsToTry[Len(calls) + 1])
                 /\ UNCHANGED <<hpc, responses>>
            ELSE /\ calls' = calls
                 /\ responses' = Append(responses, CatchResponse(AllFailedMessage(lastError')))
                 /\ hpc' = "done"
  /\ UNCHANGED <<req, served, success, sentPrompt, sentFeatures, visionCalls,
                 visionReply, routed, reads>>
  /\ UNCHANGED uvars

\* the fetch of the annotation provider settles
VisionSettles ==
  /\ hpc = "vision"
  /\ \E v \in VisionReplies :
       /\ visionReply' = v
       /\ responses' =
            Append(responses,
              CASE v.kind = "reject" -> CatchResponse(v.msg)
                [] v.kind = "noResponse" -> CatchResponse("No response from Vision API")
                [] v.kind = "response" ->
                     ResultResponse(FormatAnnotations(req.mode, v.resData)))
       /\ hpc' = "done"
  /\ UNCHANGED <<req, served, calls, outcomes, lastError, success, sentPrompt,
                 sentFeatures, visionCalls, routed, reads>>
  /\ UNCHANGED uvars

Next == Receive \/ ModelSucceeds \/ ModelFails \/ VisionSettles

Spec == Init /\ [][Next]_vars

\* ------------------------------------------------------------ UI (App)
\* what distinguishes the copies of the component
StopsBeforeAcquire(v) == v # "App.jsx"   \* startCamera stops the held stream first
HasTrackRef(v) == v # "App.jsx"
HasToggle(v) == v # "App.jsx"            \* toggleCamera and its FLIP button
HasFilters(v) == v \in {"part_001", "part_002"}
StopsOnCapture(v) == v # "part_002"      \* captureAndAnalyze calls stopCamera
ResetRestarts(v) == v # "part_002"       \* reset calls startCamera
ControlsNeedNoImage(v) == v = "part_002" \* controls rendered only while !capturedImage

\* results the analyze endpoint may deliver to the UI
ServerResults == {"A HAIKU"}

\* error texts the analyze endpoint may send with a status that is not ok
ServerErrors == {"API Key not configured", "No response from Vision API"}

\* how the fetch of /api/analyze settles: a 200 with data.result, a
\* response that is not ok with the server's error text, or a rejection
FetchOutcomes ==
  [kind : {"ok"}, result : ServerResults, error : {""}]
  \cup [kind : {"notOk"}, result : {"null"}, error : ServerErrors]
  \cup [kind : {"reject"}, result : {"null"}, error : {""}]

\* video frames, one RGBA pixel each
Frames == { <<250, 100, 0, 255>>, <<10, 10, 10, 255>> }

\* values of the grain slider
Grains == {0, 50}

\* (Math.random() - 0.5) * intensity, with intensity = grain / 100 * 80
Noises(g) ==
  IF g > 0 THEN { -(((g * 80) \div 100) \div 2), (((g * 80) \div 100) \div 2) - 1 }
  ELSE {0}

\* a store into the Uint8ClampedArray of the image data
Clamp(x) == IF x < 0 THEN 0 ELSE IF x > 255 THEN 255 ELSE x

\* applyFilters on the canvas pixels
applyFilters(px, mono, g, noise) ==
  LET avg == (299 * px[1] + 587 * px[2] + 114 * px[3] + 500) \div 1000
      m == IF mono THEN <<avg, avg, avg, px[4]>> ELSE px
  IN IF g > 0
       THEN <<Clamp(m[1] + noise), Clamp(m[2] + noise), Clamp(m[3] + noise), m[4]>>
       ELSE m

\* canvas.toDataURL('image/jpeg', 0.8): the header and the encoded pixels
toDataURL(px) == [mime |-> "data:image/jpeg;base64,", data |-> px]

\* imageData.replace(/^data:image\/\w+;base64,/, '')
StripHeader(url) == url.data

\* the payload encoded after the filters ran
Base64OfFiltered(v, px, mono, g, noise) ==
  IF HasFilters(v) THEN StripHeader(toDataURL(applyFilters(px, mono, g, noise)))
  ELSE StripHeader(toDataURL(px))

\* base64Image: the canvas is encoded right after drawImage
Base64Of(v, px, mono, g, noise) == StripHeader(toDataURL(px))

\* the data URL handed to setCapturedImage
ShownOf(v, px, mono, g, noise) ==
  IF HasFilters(v) THEN toDataURL(applyFilters(px, mono, g, noise))
  ELSE toDataURL(px)

\* Array.prototype.indexOf, zero-based, -1 when absent
IndexOf(arr, x) ==
  IF Includes(arr, x) THEN (CHOOSE i \in 1..Len(arr) : arr[i] = x) - 1 ELSE -1

\* tracks after streamRef.current.getTracks().forEach(track => track.stop())
StopTracks(t, ref) == IF ref # 0 THEN [t EXCEPT ![ref] = "stopped"] ELSE t

\* the camera as stopCamera sees it: the two refs, the tracks, isStreaming
Cam == [streamRef |-> streamRef, trackRef |-> trackRef,
        tracks |-> tracks, isStreaming |-> isStreaming]

\* a stopCamera that stops the tracks and forgets to null the refs
stopCameraKeepsRefs(cam) ==
  [cam EXCEPT !.tracks = StopTracks(cam.tracks, cam.streamRef),
              !.isStreaming = FALSE]

\* stopCamera: inside the if, the tracks of the held stream are stopped and
\* the refs nulled (trackRef exists from part_000 on and is 0 before);
\* setIsStreaming(false) runs in either case
stopCamera(cam) ==
  IF cam.streamRef # 0
    THEN [streamRef |-> 0, trackRef |-> 0,
          tracks |-> StopTracks(cam.tracks, cam.streamRef),
          isStreaming |-> FALSE]
    ELSE [cam EXCEPT !.isStreaming = FALSE]

\* tracks after the part of startCamera that precedes its await
BeforeAcquire(v, t, ref) == IF StopsBeforeAcquire(v) THEN StopTracks(t, ref) ELSE t

\* a name for a new request, to tell it from the ones in flight
FreshId(reqs) == CHOOSE i \in 1..(Cardinality(reqs) + 1) : \A r \in reqs : r.id # i

\* TAP TO START: startCamera up to its await, getUserMedia is called
startCamera ==
  /\ ~isStreaming /\ capturedImage = NoImage    \* TAP TO START is rendered
  /\ Len(tracks) + pendingGUM < MaxStarts
  /\ pendingGUM < MaxPending
  /\ tracks' = BeforeAcquire(version, tracks, streamRef)
  /\ pendingGUM' = pendingGUM + 1
  /\ UNCHANGED <<version, isStreaming, capturedImage, result, loading, mode,
                 facingMode, monochrome, grain, streamRef, trackRef, inflight,
                 lastOutcome>>
  /\ UNCHANGED hvars

\* startCamera after its await, getUserMedia resolved with a new stream
startCameraResolved ==
  /\ pendingGUM > 0
  /\ pendingGUM' = pendingGUM - 1
  /\ tracks' = Append(tracks, "live")
  /\ streamRef' = Len(tracks) + 1
  /\ trackRef' = IF HasTrackRef(version) THEN Len(tracks) + 1 ELSE trackRef
  /\ isStreaming' = TRUE
  /\ capturedImage' = NoImage
  /\ result' = "null"
  /\ UNCHANGED <<version, loading, mode, facingMode, monochrome, grain, inflight, lastOutcome>>
  /\ UNCHANGED hvars

\* startCamera after its await, getUserMedia rejected: the error is logged
startCameraRejected ==
  /\ pendingGUM > 0
  /\ pendingGUM' = pendingGUM - 1
  /\ UNCHANGED <<version, isStreaming, capturedImage, result, loading, mode,
                 facingMode, monochrome, grain, streamRef, trackRef, tracks,
                 inflight, lastOutcome>>
  /\ UNCHANGED hvars

\* FLIP: the facing mode is switched and startCamera called with it
toggleCamera ==
  /\ HasToggle(version)
  /\ isStreaming                                \* the FLIP button is rendered
  /\ ControlsNeedNoImage(version) => capturedImage = NoImage
  /\ Len(tracks) + pendingGUM < MaxStarts
  /\ pendingGUM < MaxPending
  /\ facingMode' = IF facingMode = "environment" THEN "user" ELSE "environment"
  /\ tracks' = BeforeAcquire(version, tracks, streamRef)
  /\ pendingGUM' = pendingGUM + 1
  /\ UNCHANGED <<version, isStreaming, capturedImage, result, loading, mode,
                 monochrome, grain, streamRef, trackRef, inflight, lastOutcome>>
  /\ UNCHANGED hvars

\* the monochrome checkbox and the grain slider of the settings panel
setFilters ==
  /\ HasFilters(version)
  /\ isStreaming                                \* the panel can be opened
  /\ ControlsNeedNoImage(version) => capturedImage = NoImage
  /\ \E mono \in BOOLEAN, g \in Grains :
       /\ <<mono, g>> # <<monochrome, grain>>
       /\ \/ mono = monochrome                  \* one control per change event
          \/ g = grain
       /\ monochrome' = mono
       /\ grain' = g
  /\ UNCHANGED <<version, isStreaming, capturedImage, result, loading, mode,
                 facingMode, streamRef, trackRef, tracks, pendingGUM,
                 inflight, lastOutcome>>
  /\ UNCHANGED hvars

\* captureAndAnalyze without its setLoading(false) on the failure path
analyzeSettlesKeepsLoading ==
  /\ \E r \in inflight, o \in FetchOutcomes :
       /\ inflight' = inflight \ {r}
       /\ lastOutcome' = o
       /\ result' = IF o.kind = "ok" THEN o.result ELSE "ERROR"
       /\ loading' = IF o.kind = "ok" THEN FALSE ELSE loading
  /\ UNCHANGED <<version, isStreaming, capturedImage, mode, facingMode,
                 monochrome, grain, streamRef, trackRef, tracks, pendingGUM>>
  /\ UNCHANGED hvars

\* captureAndAnalyze showing the server's error text
analyzeSettlesShowsError ==
  /\ \E r \in inflight, o \in FetchOutcomes :
       /\ inflight' = inflight \ {r}
       /\ lastOutcome' = o
       /\ result' = IF o.kind = "ok" THEN o.result
                    ELSE IF o.kind = "notOk" THEN o.error ELSE "ERROR"
       /\ loading' = FALSE
  /\ UNCHANGED <<version, isStreaming, capturedImage, mode, facingMode,
                 monochrome, grain, streamRef, trackRef, tracks, pendingGUM>>
  /\ UNCHANGED hvars

\* captureAndAnalyze up to the await of analyzeImage: the frame is grabbed,
\* encoded, filtered for display, the camera stopped (stopCamera) and the
\* request sent. The body also carries the mode of that moment, which the
\* component never reads back; the request is kept here by its image.
captureAndAnalyze ==
  /\ isStreaming                                \* the capture button is rendered
  /\ ControlsNeedNoImage(version) => capturedImage = NoImage
  /\ \E px \in Frames, noise \in Noises(grain) :
       /\ capturedImage' = ShownOf(version, px, monochrome, grain, noise)
       /\ inflight' = inflight \cup
            {[id |-> FreshId(inflight),
              base64Image |-> Base64Of(version, px, monochrome, grain, noise)]}
  /\ IF StopsOnCapture(version)
       THEN /\ tracks' = stopCamera(Cam).tracks
            /\ streamRef' = stopCamera(Cam).streamRef
            /\ trackRef' = stopCamera(Cam).trackRef
            /\ isStreaming' = stopCamera(Cam).isStreaming
       ELSE UNCHANGED <<tracks, streamRef, trackRef, isStreaming>>
  /\ loading' = TRUE
  /\ UNCHANGED <<version, result, mode, facingMode, monochrome, grain, pendingGUM, lastOutcome>>
  /\ UNCHANGED hvars

\* captureAndAnalyze after the await: the request of one capture settles
analyzeSettles ==
  /\ \E r \in inflight, o \in FetchOutcomes :
       /\ inflight' = inflight \ {r}
       /\ lastOutcome' = o
       /\ result' = IF o.kind = "ok" THEN o.result ELSE "ERROR"
       /\ loading' = FALSE
  /\ UNCHANGED <<version, isStreaming, capturedImage, mode, facingMode,
                 monochrome, grain, streamRef, trackRef, tracks, pendingGUM>>
  /\ UNCHANGED hvars

\* AGAIN. part_001 declares reset twice, once without the two clears.
reset ==
  /\ capturedImage # NoImage /\ ~loading        \* the AGAIN button is rendered
  /\ IF ResetRestarts(version)
       THEN /\ Len(tracks) + pendingGUM < MaxStarts
            /\ pendingGUM < MaxPending
            /\ \E clears \in (IF version = "part_001" THEN BOOLEAN ELSE {TRUE}) :
                 /\ capturedImage' = IF clears THEN NoImage ELSE capturedImage
                 /\ result' = IF clears THEN "null" ELSE result
            /\ tracks' = BeforeAcquire(version, tracks, streamRef)  \* startCamera()
                      /\ pendingGUM' = pendingGUM + 1
       ELSE /\ capturedImage' = NoImage
            /\ result' = "null"
            /\ UNCHANGED <<tracks, pendingGUM>>
  /\ UNCHANGED <<version, isStreaming, loading, mode, facingMode, monochrome,
                 grain, streamRef, trackRef, inflight, lastOutcome>>
  /\ UNCHANGED hvars

\* a cycleMode that steps two entries ahead
NextModeSkips(m) == modes[((IndexOf(modes, m) + 2) % Len(modes)) + 1]

\* modes[(currentIndex + 1) % modes.length]
NextMode(m) == modes[((IndexOf(modes, m) + 1) % Len(modes)) + 1]

\* the mode button
cycleMode ==
  /\ mode' = NextMode(mode)
  /\ UNCHANGED <<version, isStreaming, capturedImage, result, loading,
                 facingMode, monochrome, grain, streamRef, trackRef, tracks,
                 pendingGUM, inflight, lastOutcome>>
  /\ UNCHANGED hvars

NextUI ==
  \/ startCamera \/ startCameraResolved \/ startCameraRejected
  \/ toggleCamera \/ setFilters
  \/ captureAndAnalyze \/ analyzeSettles \/ reset \/ cycleMode

SpecUI == InitUI /\ [][NextUI]_vars

\* every request sent is eventually answered or fails
SpecUIFair == SpecUI /\ WF_vars(analyzeSettles)

\* ================================================================ claims
\* the request reached the dispatch on the mode (line 36 of the handler)
Dispatched ==
  /\ hpc \in {"loop", "vision", "done"}
  /\ req.method # "OPTIONS" /\ req.hasBody /\ req.hasKey

InGenerativeBranch == Dispatched /\ Len(calls) > 0
InAnnotationBranch == Dispatched /\ visionCalls > 0

AllModelsFailed ==
  /\ Len(outcomes) = 3
  /\ \A k \in 1..3 : outcomes[k].kind # "ok"

Min(a, b) == IF a < b THEN a ELSE b

\* C1 as stated: once generateContent has resolved for a model, no later
\* model is called and the result returned is the text that model produced.
C1_ResultIsModelText ==
  \A k \in 1..Len(outcomes) :
    outcomes[k].kind # "reject" =>
      /\ Len(calls) = k
      /\ hpc = "done"
      /\ responses = <<[status |-> 200, kind |-> "result",
                        result |-> outcomes[k].text, error |-> ""]>>

\* C1 amended: once an attempt succeeds (generateContent resolves and the
\* response text is read), no later model is called and the result returned
\* is the upper-casing of the text of that first succeeding model.
C1_FirstSuccessStops ==
  \A k \in 1..Len(outcomes) :
    outcomes[k].kind = "ok" =>
      /\ Len(calls) = k
      /\ Len(outcomes) = k
      /\ hpc = "done"
      /\ responses = <<[status |-> 200, kind |-> "result",
                        result |-> toUpperCase(outcomes[k].text), error |-> ""]>>

C1_Witness ==
  /\ hpc = "done"
  /\ Len(outcomes) = 2
  /\ outcomes[1].kind = "reject"
  /\ outcomes[2].kind = "ok"
  /\ outcomes[2].text = <<"a", " ", "b">>
  /\ responses[1].result = <<"A", " ", "B">>

\* C2: a request served by the generative branch is answered with an error
\* exactly when all three models failed; the error then carries the message
\* of the last failure, and after a success no earlier failure is surfaced.
C2_ErrorIffAllFailed ==
  /\ hpc = "loop" => responses = <<>>
  /\ (InGenerativeBranch /\ hpc = "done") =>
       /\ Len(responses) = 1
       /\ (responses[1].kind = "error") <=> AllModelsFailed
       /\ AllModelsFailed =>
            /\ responses[1].status = 500
            /\ responses[1].error = "All models failed. Last error: " \o outcomes[3].msg
       /\ ~AllModelsFailed =>
            /\ responses[1].kind = "result"
            /\ responses[1].error = ""

C2_Witness ==
  /\ hpc = "done"
  /\ AllModelsFailed
  /\ outcomes[1].msg = "quota exceeded"
  /\ outcomes[3].msg = "model not found"
  /\ responses[1].kind = "error"

\* C3: every mode the UI sends is dispatched to its provider with its own
\* defined prompt (gemini, celebrity, mood, haiku) or its own defined
\* feature list (labels, text, faces).
C3_ModeMapping ==
  (Dispatched /\ req.mode \in UIModes) =>
    /\ req.mode \in {"gemini", "celebrity", "mood", "haiku"} =>
         /\ Len(calls) > 0
         /\ sentPrompt = prompts[req.mode]
    /\ req.mode \in {"labels", "text", "faces"} =>
         /\ visionCalls > 0
         /\ sentFeatures = features[req.mode]
    /\ sentPrompt # "undefined"
    /\ sentFeatures # "undefined"

\* C4: a request whose method is not OPTIONS gets exactly one response, a
\* { result } or an { error }, whatever its body, mode and outcome.
C4_ExactlyOneResponse ==
  /\ Len(responses) <= 1
  /\ (hpc \in {"done", "crashed"} /\ req.method # "OPTIONS") =>
       /\ Len(responses) = 1
       /\ responses[1].kind \in {"result", "error"}

\* the requested mode's annotation field is missing from the response entry
AnnotationFieldMissing(m, d) ==
  /\ m = "labels" => ~d.hasLabels
  /\ m = "text" => ~d.hasText
  /\ m = "faces" => ~d.hasFaces

\* C5 as stated: with no response entry, or an entry without the mode's
\* annotation field, the handler answers { error } with status 500.
C5_NoAnnotationIsError ==
  (InAnnotationBranch /\ hpc = "done"
     /\ \/ visionReply.kind = "noResponse"
        \/ /\ visionReply.kind = "response"
           /\ AnnotationFieldMissing(req.mode, visionReply.resData)) =>
    /\ Len(responses) = 1
    /\ responses[1].kind = "error"
    /\ responses[1].status = 500

\* C5 amended: with no response entry the handler answers status 500 and
\* { error: 'No response from Vision API' }; with an entry that lacks the
\* mode's annotation field it answers status 200 and
\* { result: 'NO DATA FOUND' }.
C5_NoAnnotation ==
  (InAnnotationBranch /\ hpc = "done") =>
    /\ visionReply.kind = "noResponse" =>
         responses = <<[status |-> 500, kind |-> "error", result |-> <<>>,
                        error |-> "No response from Vision API"]>>
    /\ (visionReply.kind = "response"
          /\ AnnotationFieldMissing(req.mode, visionReply.resData)) =>
         responses = <<[status |-> 200, kind |-> "result",
                        result |-> <<"N","O"," ","D","A","T","A"," ","F","O","U","N","D">>,
                        error |-> ""]>>

C5_Witness ==
  /\ hpc = "done"
  /\ req.mode = "faces"
  /\ visionReply.kind = "response"
  /\ ~visionReply.resData.hasFaces
  /\ responses[1].status = 200

\* C6: one request calls the generative provider at most three times, each
\* model at most once and in the fixed order, model k only after models
\* 1..k-1 all failed, and the annotation provider at most once.
C6_NoRetryBeyondList ==
  /\ Len(calls) <= 3
  /\ \A k \in 1..Len(calls) :
       /\ calls[k] = <<"gemini-2.0-flash", "gemini-1.5-flash-latest", "gemini-pro-vision">>[k]
       /\ \A j \in 1..(k - 1) : j <= Len(outcomes) /\ outcomes[j].kind # "ok"
  /\ Len(outcomes) <= Len(calls)
  /\ visionCalls <= 1

C6_Witness ==
  /\ hpc = "loop"
  /\ Len(calls) = 3
  /\ Len(outcomes) = 2

\* C7: every result of a 200 response equals its own upper-casing.
C7_ResultUpperCased ==
  \A i \in 1..Len(responses) :
    (responses[i].status = 200 /\ responses[i].kind = "result") =>
      toUpperCase(responses[i].result) = responses[i].result

C7_Witness ==
  /\ hpc = "done"
  /\ req.mode = "labels"
  /\ visionReply.kind = "response"
  /\ visionReply.resData.hasLabels
  /\ visionReply.resData.labels = << <<"a">> >>
  /\ responses[1].result = <<"A">>

\* C8: in text mode the result is the first 100 characters of the
\* upper-cased description of the first text annotation; in labels mode it
\* is the upper-cased descriptions of the first 5 label annotations at
\* most, in the provider's order, joined by newlines.
C8_Truncated ==
  (InAnnotationBranch /\ hpc = "done" /\ visionReply.kind = "response") =>
    LET d == visionReply.resData
        r == responses[1].result
    IN /\ req.mode = "text" => Len(r) <= 100
       /\ (req.mode = "text" /\ d.hasText /\ Len(d.texts) > 0) =>
            LET u == toUpperCase(d.texts[1])
            IN r = SubSeq(u, 1, Min(Len(u), 100))
       /\ (req.mode = "labels" /\ d.hasLabels) =>
            LET n == Min(Len(d.labels), 5)
            IN r = JoinNewline([i \in 1..n |-> toUpperCase(d.labels[i])])

C8_Witness ==
  /\ hpc = "done"
  /\ req.mode = "text"
  /\ visionReply.kind = "response"
  /\ visionReply.resData.hasText
  /\ Len(visionReply.resData.texts) > 0
  /\ Len(toUpperCase(visionReply.resData.texts[1])) > 100
  /\ Len(responses[1].result) = 100

\* C9: the UI never has two /api/analyze requests in flight at once.
C9_SingleRequestInFlight == Cardinality(inflight) <= 1

\* C10: a dispatched request contacts exactly one of the two providers, and
\* which one depends on the mode alone: all requests of one mode, whatever
\* their image and whenever they come, go to the same provider.
C10_OneProviderByMode ==
  /\ ~(Len(calls) > 0 /\ visionCalls > 0)
  /\ Dispatched => (Len(calls) > 0 \/ visionCalls > 0)
  /\ \A m \in AllModes : \A p, q \in routed[m] : p[2] = q[2]

C10_Witness ==
  /\ hpc = "done"
  /\ Cardinality(routed[req.mode]) = 2
  /\ Len(calls) > 0

\* C11: with the API credential absent, every request whose method is not
\* OPTIONS is answered with status 500 and 'API Key not configured', and
\* neither provider is contacted.
C11_NoKeyAnswered ==
  (hpc # "idle" /\ req.method # "OPTIONS" /\ ~req.hasKey) =>
    /\ Len(calls) = 0
    /\ visionCalls = 0
    /\ hpc \in {"done", "crashed"}
    /\ responses = <<[status |-> 500, kind |-> "error", result |-> <<>>,
                      error |-> "API Key not configured"]>>

\* C12: a request whose method is neither OPTIONS nor POST is answered with
\* status 405 and 'Method Not Allowed', and no provider is contacted for it.
C12_PostOnly ==
  (hpc # "idle" /\ req.method \notin {"OPTIONS", "POST"}) =>
    /\ Len(calls) = 0
    /\ visionCalls = 0
    /\ hpc \in {"done", "crashed"}
    /\ responses = <<[status |-> 405, kind |-> "error", result |-> <<>>,
                      error |-> "Method Not Allowed"]>>

\* C13: an OPTIONS request is answered with status 200 and an empty body;
\* the handler reads neither the body nor the credential for it and
\* contacts no provider, also when the credential is not configured.
C13_PreflightTouchesNothing ==
  (hpc # "idle" /\ req.method = "OPTIONS") =>
    /\ hpc = "done"
    /\ responses = <<[status |-> 200, kind |-> "empty", result |-> <<>>,
                      error |-> ""]>>
    /\ reads = {}
    /\ Len(calls) = 0
    /\ visionCalls = 0
    /\ sentPrompt = "none" /\ sentFeatures = "none"

C13_Witness ==
  /\ hpc = "done"
  /\ served = 2
  /\ req.method = "OPTIONS"
  /\ ~req.hasKey
  /\ req.hasBody
  /\ Len(responses) = 1

\* a step in which one /api/analyze request settles
RequestSettles == inflight' # inflight /\ inflight' \subseteq inflight

\* a step in which captureAndAnalyze sends a request
RequestSent == inflight' # inflight /\ inflight \subseteq inflight'

\* C14: when the analyze request fails (rejection, or a status that is not
\* ok whatever error text came with it), result becomes exactly 'ERROR' and
\* loading false; the server's error text is never stored in result.
C14_FailureShowsERROR ==
  /\ [](result \notin ServerErrors)
  /\ [][(RequestSettles /\ lastOutcome'.kind \in {"notOk", "reject"}) =>
          /\ result' = "ERROR"
          /\ loading' = FALSE
          /\ result' # lastOutcome'.error]_vars

C14_Witness ==
  /\ lastOutcome.kind = "notOk"
  /\ lastOutcome.error = "No response from Vision API"
  /\ result = "ERROR"
  /\ ~loading

\* C15: a stream that streamRef does not reference has all its tracks
\* stopped, so at most one acquired stream is live.
C15_OneLiveStream ==
  \A i \in 1..Len(tracks) : tracks[i] = "live" => streamRef = i

\* C16: result is non-null only if capturedImage is non-null.
C16_ResultNeedsImage == result # "null" => capturedImage # NoImage

\* C17: loading is false whenever no request is in flight, and every
\* loading that a capture switched on is switched off again once its fetch
\* has settled, whether with a result, a status that is not ok or a
\* rejection.
C17_LoadingEnds ==
  /\ [](inflight = {} => ~loading)
  /\ (loading ~> ~loading)

C17_Witness ==
  /\ lastOutcome.kind = "reject"
  /\ inflight = {}
  /\ ~loading
  /\ capturedImage # NoImage

\* C18: whenever isStreaming is true, streamRef holds a stream whose tracks
\* have not been stopped.
C18_StreamingHasLiveStream ==
  isStreaming => (streamRef # 0 /\ tracks[streamRef] = "live")

\* C19: a startCamera whose getUserMedia rejects has no effect but the
\* logged error: the step that handles the rejection leaves isStreaming,
\* capturedImage, result and the streams as they are, and so does the part
\* of startCamera that runs before getUserMedia settles.
C19_RejectionOnlyLogs ==
  [][/\ (pendingGUM' < pendingGUM /\ Len(tracks') = Len(tracks)) =>
          UNCHANGED <<isStreaming, capturedImage, result, loading, streamRef,
                      trackRef, tracks>>
     /\ (pendingGUM' > pendingGUM) => tracks' = tracks]_vars

\* C20: the image sent to /api/analyze is the raw frame whatever the
\* monochrome and grain settings are, and the image displayed is that frame
\* after applyFilters.
C20_PayloadIsRawFrame ==
  [][RequestSent =>
       \E px \in Frames :
         /\ \A r \in inflight' \ inflight : r.base64Image = px
         /\ capturedImage'.mime = "data:image/jpeg;base64,"
         /\ \E n \in Noises(grain) :
              capturedImage'.data =
                IF version \in {"part_001", "part_002"}
                  THEN applyFilters(px, monochrome, grain, n)
                  ELSE px]_vars

C20_Witness ==
  /\ version = "part_001"
  /\ monochrome /\ grain = 50
  /\ capturedImage # NoImage
  /\ capturedImage.data \notin Frames
  /\ \E r \in inflight : r.base64Image = <<250, 100, 0, 255>>

\* ---------------------------------------------------------------- C21
\* the camera after the step
CamAfter == [streamRef |-> streamRef', trackRef |-> trackRef',
             tracks |-> tracks', isStreaming |-> isStreaming']

\* a capture step of a version whose captureAndAnalyze calls stopCamera
CaptureStops == RequestSent /\ StopsOnCapture(version)

\* C21: stopCamera releases the camera and is idempotent. In every reachable
\* state the camera it returns has the held stream's tracks stopped and no
\* other track touched, streamRef and trackRef null and isStreaming false,
\* and a second call returns the same camera; before any stream was acquired
\* it changes nothing; and the capture step, which calls it, leaves the
\* camera in exactly that released state.
C21_StopCameraIdempotent ==
  /\ [](LET a == stopCamera(Cam) IN
          /\ a.streamRef = 0 /\ a.trackRef = 0 /\ ~a.isStreaming
          /\ Len(a.tracks) = Len(tracks)
          /\ \A i \in 1..Len(tracks) :
               a.tracks[i] = IF i = streamRef THEN "stopped" ELSE tracks[i]
          /\ stopCamera(a) = a
          /\ (Len(tracks) = 0 => a = Cam))
  /\ [][CaptureStops =>
         /\ streamRef' = 0 /\ trackRef' = 0 /\ ~isStreaming'
         /\ (streamRef # 0 => tracks'[streamRef] = "stopped")
         /\ stopCamera(CamAfter) = CamAfter]_vars

\* the capture of part_000 has stopped the stream it held
C21_Witness ==
  /\ version = "part_000"
  /\ capturedImage # NoImage /\ loading
  /\ streamRef = 0 /\ trackRef = 0 /\ ~isStreaming
  /\ Len(tracks) = 1 /\ tracks[1] = "stopped"

\* ---------------------------------------------------------------- C22
\* the cycle as the claim spells it
ClaimedNext ==
  [m \in {"gemini", "celebrity", "mood", "haiku", "labels", "text", "faces"} |->
     CASE m = "gemini"    -> "celebrity"
       [] m = "celebrity" -> "mood"
       [] m = "mood"      -> "haiku"
       [] m = "haiku"     -> "labels"
       [] m = "labels"    -> "text"
       [] m = "text"      -> "faces"
       [] m = "faces"     -> "gemini"]

RECURSIVE Taps(_, _)
\* the mode after n taps on the mode button, starting from m
Taps(m, n) == IF n = 0 THEN m ELSE Taps(NextMode(m), n - 1)

====
